---- MODULE Spec2Model ----
(***************************************************************************)
(* Batch resolution-and-rename pipeline of Paper PDF Renamer               *)
(* (src/app/page.tsx): the per-file job state machine, DOI detection,      *)
(* the Crossref lookup, filename synthesis and collision resolution.       *)
(*                                                                         *)
(* After it, the two other variants of the application: the one that      *)
(* posts a file to /api/rename (src/src/App.tsx) and the single-file one   *)
(* (src/unnamed/part_000).  Each variant has its own variables and its own *)
(* specification; the steps of one leave the variables of the others as    *)
(* they are.                                                               *)
(*                                                                         *)
(* Strings are TLA+ strings; Len, SubSeq and \o act on them character by   *)
(* character.  An optional field (x?: T) is a sequence of length 0 or 1:   *)
(* None when absent, Some(v) when present.                                 *)
(***************************************************************************)
EXTENDS Integers, Sequences, FiniteSets, TLC

None == <<>>

Some(v) == <<v>>

----------------------------------------------------------------------------
(* Characters and the String.prototype methods the source uses.            *)

Lowers == "abcdefghijklmnopqrstuvwxyz"

Uppers == "ABCDEFGHIJKLMNOPQRSTUVWXYZ"

Digits == "0123456789"

charAt(s, i) == SubSeq(s, i, i)

CharsOf(s) == {charAt(s, i) : i \in 1..Len(s)}

slice(s, from, to) == SubSeq(s, from + 1, to)

LowerSet == CharsOf(Lowers)

UpperSet == CharsOf(Uppers)

DigitSet == CharsOf(Digits)

WordSet == LowerSet \cup UpperSet \cup DigitSet \cup {"_"}

\* String.prototype.toLowerCase / toUpperCase, letter by letter
LowerOf == [c \in UpperSet |-> charAt(Lowers, CHOOSE i \in 1..Len(Uppers) : charAt(Uppers, i) = c)]

UpperOf == [c \in LowerSet |-> charAt(Uppers, CHOOSE i \in 1..Len(Lowers) : charAt(Lowers, i) = c)]

lowerChar(c) == IF c \in UpperSet THEN LowerOf[c] ELSE c

upperChar(c) == IF c \in LowerSet THEN UpperOf[c] ELSE c

\* (the string operators halve their argument, so that the depth of the
\* evaluation grows with the logarithm of the length)
RECURSIVE toLowerCase(_)
toLowerCase(s) ==
    IF Len(s) = 0 THEN ""
    ELSE IF Len(s) = 1 THEN lowerChar(s)
    ELSE toLowerCase(SubSeq(s, 1, Len(s) \div 2))
             \o toLowerCase(SubSeq(s, Len(s) \div 2 + 1, Len(s)))

isDigit(c) == c \in DigitSet

isWordChar(c) == c \in WordSet

\* \s of the regular expressions, over the characters the model uses
isSpace(c) == c \in {" ", "\t", "\n"}

endsWith(s, p) == Len(s) >= Len(p) /\ SubSeq(s, Len(s) - Len(p) + 1, Len(s)) = p

RECURSIVE removeChars(_, _)
removeChars(s, drop) ==
    IF Len(s) = 0 THEN ""
    ELSE IF Len(s) = 1 THEN (IF s \in drop THEN "" ELSE s)
    ELSE removeChars(SubSeq(s, 1, Len(s) \div 2), drop)
             \o removeChars(SubSeq(s, Len(s) \div 2 + 1, Len(s)), drop)

RECURSIVE trimStart(_)
trimStart(s) ==
    IF s # "" /\ isSpace(charAt(s, 1)) THEN trimStart(SubSeq(s, 2, Len(s))) ELSE s

RECURSIVE trimEnd(_)
trimEnd(s) ==
    IF s # "" /\ isSpace(charAt(s, Len(s))) THEN trimEnd(SubSeq(s, 1, Len(s) - 1)) ELSE s

trim(s) == trimEnd(trimStart(s))

\* what .replace(/\s+/g, " ") leaves of the characters lo..hi of s: one " "
\* for the first character of a run of white space, nothing for the others
RECURSIVE collapseRange(_, _, _)
collapseRange(s, lo, hi) ==
    IF lo > hi THEN ""
    ELSE IF lo = hi
         THEN (IF ~isSpace(charAt(s, lo)) THEN charAt(s, lo)
               ELSE IF lo > 1 /\ isSpace(charAt(s, lo - 1)) THEN "" ELSE " ")
    ELSE collapseRange(s, lo, (lo + hi) \div 2)
             \o collapseRange(s, (lo + hi) \div 2 + 1, hi)

\* .replace(/\s+/g, " ")
collapseSpaces(s) == collapseRange(s, 1, Len(s))

\* String(n) and `${n}` for a non-negative integer
RECURSIVE String(_)
String(n) ==
    IF n < 10 THEN charAt(Digits, n + 1)
    ELSE String(n \div 10) \o charAt(Digits, (n % 10) + 1)

----------------------------------------------------------------------------
(* cleanDoi, sanitizeFilename, truncate, safeSegment                       *)

\* .replace(/^https?:\/\/(dx\.)?doi\.org\//i, "")
DoiUrlPrefixes ==
    {"https://dx.doi.org/", "http://dx.doi.org/", "https://doi.org/", "http://doi.org/"}

stripDoiUrl(value) ==
    LET hit == {p \in DoiUrlPrefixes :
                    /\ Len(value) >= Len(p)
                    /\ toLowerCase(SubSeq(value, 1, Len(p))) = p}
    IN  IF hit = {} THEN value
        ELSE LET p == CHOOSE q \in hit : TRUE
             IN  SubSeq(value, Len(p) + 1, Len(value))

\* .replace(/[).,;]+$/, "")
RECURSIVE stripTrailingPunct(_)
stripTrailingPunct(s) ==
    IF s # "" /\ charAt(s, Len(s)) \in {")", ".", ",", ";"}
    THEN stripTrailingPunct(SubSeq(s, 1, Len(s) - 1))
    ELSE s

cleanDoi(value) ==
    stripTrailingPunct(
        removeChars(removeChars(stripDoiUrl(value), {" ", "\t", "\n"}),
                    {"<", ">", "\"", "'"}))

\* NFKD leaves the characters of the model (ASCII) unchanged
sanitizeFilename(value) ==
    trim(collapseSpaces(
        removeChars(removeChars(value, {"\t", "\n"}),
                    {"\\", "/", ":", "*", "?", "\"", "<", ">", "|"})))

\* truncate returning its argument whatever its length
truncateNever(value, maxLength) == value

truncate(value, maxLength) ==
    IF Len(value) > maxLength THEN slice(value, 0, maxLength) ELSE value

safeSegment(value, fallback) ==
    LET cleaned == sanitizeFilename(value)
    IN  IF Len(cleaned) > 0 THEN cleaned ELSE fallback

----------------------------------------------------------------------------
(* findDois: DOI_REGEX = /10\.\d{4,9}\/[\w.()/:;-]+/gi, then cleanDoi,     *)
(* filter(Boolean) and de-duplication through a Set (insertion order).     *)

isDoiSuffixChar(c) == isWordChar(c) \/ c \in {".", "(", ")", "/", ":", ";", "-"}

\* the length of the longest run of characters satisfying the class at i
RECURSIVE runLength(_, _, _)
runLength(text, i, isSuffix) ==
    IF i > Len(text) THEN 0
    ELSE IF (IF isSuffix THEN isDoiSuffixChar(charAt(text, i)) ELSE isDigit(charAt(text, i)))
         THEN 1 + runLength(text, i + 1, isSuffix)
         ELSE 0

\* the index after the match of DOI_REGEX that starts at i, or 0 when none
\* starts there.  "/" is no digit, so \d{4,9} must take the whole digit run.
matchDoiAt(text, i) ==
    IF ~(i + 2 <= Len(text) /\ SubSeq(text, i, i + 2) = "10.") THEN 0
    ELSE LET d == runLength(text, i + 3, FALSE)
             slash == i + 3 + d
         IN  IF d < 4 \/ d > 9 THEN 0
             ELSE IF ~(slash <= Len(text) /\ charAt(text, slash) = "/") THEN 0
             ELSE LET n == runLength(text, slash + 1, TRUE)
                  IN  IF n = 0 THEN 0 ELSE slash + 1 + n

\* text.match(DOI_REGEX) ?? [] from index i on
RECURSIVE matchAll(_, _)
matchAll(text, i) ==
    IF i > Len(text) THEN <<>>
    ELSE LET e == matchDoiAt(text, i)
         IN  IF e = 0 THEN matchAll(text, i + 1)
             ELSE <<SubSeq(text, i, e - 1)>> \o matchAll(text, e)

\* [...new Set(xs)]
RECURSIVE uniqueInOrder(_, _)
uniqueInOrder(xs, seen) ==
    IF xs = <<>> THEN <<>>
    ELSE IF Head(xs) \in seen THEN uniqueInOrder(Tail(xs), seen)
    ELSE <<Head(xs)>> \o uniqueInOrder(Tail(xs), seen \cup {Head(xs)})

findDois(text) ==
    LET matches == matchAll(text, 1)
        cleaned == [k \in 1..Len(matches) |-> cleanDoi(matches[k])]
    IN  uniqueInOrder(SelectSeq(cleaned, LAMBDA d : d # ""), {})

----------------------------------------------------------------------------
(* CrossrefWork and the filename segments.  A work is a record             *)
(*   title     : sequence of strings            (title?: string[])         *)
(*   author    : sequence of [family, name, given : optional string]       *)
(*   dateParts : sequence of sequences of numbers (issued?.["date-parts"]) *)
(*   container : sequence of strings            ("container-title")        *)
(* An absent array reads like an empty one through the ?. chains.          *)

MAX_FILENAME_LENGTH == 180

MAX_SHORT_TITLE_LENGTH == 60

MAX_JOURNAL_ABBR_LENGTH == 40

JOURNAL_STOP_WORDS == {"of", "and", "the", "in"}

getYear(work) ==
    LET firstDate == IF work.dateParts # <<>> /\ work.dateParts[1] # <<>>
                     THEN work.dateParts[1][1] ELSE 0
    IN  IF firstDate # 0 THEN String(firstDate) ELSE "UnknownYear"

\* getFirstAuthor with first.name ?? first.family ?? first.given
getFirstAuthorNameFirst(work) ==
    IF work.author = <<>> THEN "UnknownAuthor"
    ELSE LET first == work.author[1]
         IN  IF first.name # None THEN first.name[1]
             ELSE IF first.family # None THEN first.family[1]
             ELSE IF first.given # None THEN first.given[1]
             ELSE "UnknownAuthor"

getFirstAuthor(work) ==
    IF work.author = <<>> THEN "UnknownAuthor"
    ELSE LET first == work.author[1]
         IN  IF first.family # None THEN first.family[1]
             ELSE IF first.name # None THEN first.name[1]
             ELSE IF first.given # None THEN first.given[1]
             ELSE "UnknownAuthor"

getShortTitle(work) ==
    LET title == sanitizeFilename(IF work.title # <<>> THEN work.title[1] ELSE "Untitled")
    IN  IF Len(title) <= MAX_SHORT_TITLE_LENGTH THEN title
        ELSE slice(title, 0, MAX_SHORT_TITLE_LENGTH) \o "-"

\* journal.split(/\s+/) without the empty words, from the text after `word`
\* on: the next word runs from the first character that is no white space
\* to the last one before white space or the end
RECURSIVE splitWords(_, _)
splitWords(s, word) ==
    LET starts == {i \in 1..Len(s) : ~isSpace(charAt(s, i))}
    IN  IF starts = {} THEN (IF word = "" THEN <<>> ELSE <<word>>)
        ELSE LET from == CHOOSE i \in starts : \A j \in starts : i <= j
                 ends == {i \in from..Len(s) : i = Len(s) \/ isSpace(charAt(s, i + 1))}
                 to == CHOOSE i \in ends : \A j \in ends : i <= j
             IN  (IF word = "" THEN <<>> ELSE <<word>>)
                     \o <<SubSeq(s, from, to)>>
                     \o splitWords(SubSeq(s, to + 1, Len(s)), "")

RECURSIVE joinInitials(_)
joinInitials(words) ==
    IF words = <<>> THEN ""
    ELSE upperChar(charAt(Head(words), 1)) \o joinInitials(Tail(words))

getJournalAbbr(work) ==
    LET journal == sanitizeFilename(IF work.container # <<>> THEN work.container[1] ELSE "")
    IN  IF journal = "" THEN "UnknownJournal"
        ELSE LET kept == SelectSeq(splitWords(journal, ""),
                                   LAMBDA w : toLowerCase(w) \notin JOURNAL_STOP_WORDS)
                 abbr == joinInitials(kept)
             IN  truncate(IF abbr # "" THEN abbr ELSE "UnknownJournal",
                          MAX_JOURNAL_ABBR_LENGTH)

----------------------------------------------------------------------------
(* Candidate names and collision resolution                                *)

getFallbackName(fileName) ==
    LET base == IF endsWith(toLowerCase(fileName), ".pdf")
                THEN slice(fileName, 0, Len(fileName) - 4) ELSE fileName
        safeBase == safeSegment(base, "untitled")
    IN  safeBase \o ".pdf"

\* the while loop returning the lower-case form it has tested against
\* `used`, not the candidate itself
RECURSIVE nextFreeNameLowerCased(_, _, _, _)
nextFreeNameLowerCased(base, ext, index, used) ==
    LET candidate == base \o " (" \o String(index) \o ")" \o ext
    IN  IF toLowerCase(candidate) \in used
        THEN nextFreeNameLowerCased(base, ext, index + 1, used)
        ELSE toLowerCase(candidate)

\* the while loop of withCollisionSuffix, entered with `${base} (${index})${ext}` taken
RECURSIVE nextFreeName(_, _, _, _)
nextFreeName(base, ext, index, used) ==
    LET candidate == base \o " (" \o String(index) \o ")" \o ext
    IN  IF toLowerCase(candidate) \in used
        THEN nextFreeName(base, ext, index + 1, used)
        ELSE candidate

\* withCollisionSuffix with `used.has(candidate)` in place of
\* `used.has(candidate.toLowerCase())`
withCollisionSuffixCaseSensitive(name, used) ==
    LET dot == IF endsWith(toLowerCase(name), ".pdf") THEN Len(name) - 4 ELSE -1
        base == IF dot >= 0 THEN slice(name, 0, dot) ELSE name
        ext == IF dot >= 0 THEN slice(name, dot, Len(name)) ELSE ".pdf"
        candidate == base \o ext
    IN  IF candidate \in used THEN nextFreeName(base, ext, 2, used) ELSE candidate

\* the name returned; the caller adds its lower-case form to `used`
withCollisionSuffix(name, used) ==
    LET dot == IF endsWith(toLowerCase(name), ".pdf") THEN Len(name) - 4 ELSE -1
        base == IF dot >= 0 THEN slice(name, 0, dot) ELSE name
        ext == IF dot >= 0 THEN slice(name, dot, Len(name)) ELSE ".pdf"
        candidate == base \o ext
    IN  IF toLowerCase(candidate) \in used
        THEN nextFreeName(base, ext, 2, used)
        ELSE candidate

\* computeCandidateName without the test on the status
computeCandidateNameAnyStatus(job) ==
    IF job.metadata # None
    THEN LET work == job.metadata[1]
             year == safeSegment(getYear(work), "UnknownYear")
             author == safeSegment(getFirstAuthor(work), "UnknownAuthor")
             shortTitle == safeSegment(getShortTitle(work), "Untitled")
             journalAbbr == safeSegment(getJournalAbbr(work), "UnknownJournal")
             base == year \o " - " \o author \o " - " \o shortTitle \o " - " \o journalAbbr
         IN  truncate(base, MAX_FILENAME_LENGTH) \o ".pdf"
    ELSE getFallbackName(job.file.name)

computeCandidateName(job) ==
    IF job.status = "ready" /\ job.metadata # None
    THEN LET work == job.metadata[1]
             year == safeSegment(getYear(work), "UnknownYear")
             author == safeSegment(getFirstAuthor(work), "UnknownAuthor")
             shortTitle == safeSegment(getShortTitle(work), "Untitled")
             journalAbbr == safeSegment(getJournalAbbr(work), "UnknownJournal")
             base == year \o " - " \o author \o " - " \o shortTitle \o " - " \o journalAbbr
         IN  truncate(base, MAX_FILENAME_LENGTH) \o ".pdf"
    ELSE getFallbackName(job.file.name)

RECURSIVE resolveFrom(_, _)
resolveFrom(nextJobs, used) ==
    IF nextJobs = <<>> THEN <<>>
    ELSE LET job == Head(nextJobs)
             candidate == computeCandidateName(job)
             resolvedFilename == withCollisionSuffix(candidate, used)
         IN  <<[job EXCEPT !.resolvedFilename = Some(resolvedFilename)]>>
                 \o resolveFrom(Tail(nextJobs), used \cup {toLowerCase(resolvedFilename)})

\* resolveAllFilenames with `used` starting from the names the jobs already
\* carry, not from an empty set
resolveAllFilenamesIncremental(nextJobs) ==
    resolveFrom(nextJobs,
                {toLowerCase(nextJobs[k].resolvedFilename[1]) :
                     k \in {i \in 1..Len(nextJobs) : nextJobs[i].resolvedFilename # None}})

reversed(list) == [k \in 1..Len(list) |-> list[Len(list) + 1 - k]]

\* resolveAllFilenames going through the batch from its last job to its first
resolveAllFilenamesLastFirst(nextJobs) == reversed(resolveFrom(reversed(nextJobs), {}))

resolveAllFilenames(nextJobs) == resolveFrom(nextJobs, {})

----------------------------------------------------------------------------
(* The batch: React state `jobs`, the processJob and processAll            *)
(* invocations in flight, and the inputs the environment supplies.         *)

\* bounds of the model
MaxJobs == 2

MaxRuns == 3

MaxEdits == 1

\* A File: its name, its MIME type, and the text of its pages
Files ==
    { [name |-> "a.pdf", type |-> "application/pdf",
       text |-> "doi:10.1000/a; https://doi.org/10.1000/b."],
      [name |-> "A.PDF", type |-> "", text |-> "no doi 10.12/x"],
      [name |-> "n.txt", type |-> "text/plain", text |-> "10.1000/a"] }

\* the FileLists a drop or an <input multiple> delivers
FileLists == {<<f>> : f \in Files} \cup {<<f, g>> : f \in Files, g \in Files}

\* what the user types into the manual DOI field
ManualInputs == {" https://doi.org/10.1000/b ", " ). "}

\* the record api.crossref.org holds for a DOI
WorkOf(doi) ==
    IF doi = "10.1000/a"
    THEN [title |-> <<"T?">>,
          author |-> <<[family |-> Some("S"), name |-> None, given |-> Some("J.")]>>,
          dateParts |-> <<<<2021, 5>>>>,
          container |-> <<"The J of">>]
    ELSE [title |-> <<>>, author |-> <<>>, dateParts |-> <<>>, container |-> <<>>]

\* the HTTP responses a lookup of `doi` can get: [status, message]
Responses(doi) ==
    { [status |-> 200, message |-> Some(WorkOf(doi))],
      [status |-> 200, message |-> None],
      [status |-> 404, message |-> None],
      [status |-> 503, message |-> None] }

VARIABLES
    jobs,       \* the PdfJob[] of useState, in batch order
    runs,       \* the processJob invocations that have not returned
    batches,    \* the processAll invocations that have not returned
    cur,        \* the continuation that holds the (single) thread, or Idle
    nextJobId,  \* number of jobs created so far
    started,    \* number of processJob invocations started or reserved
    edits,      \* number of DOI selections and manual DOI edits so far
    downloads,  \* the downloadJob and downloadAll invocations that have not returned
    server,     \* the server-mediated variant (src/src/App.tsx): its state and requests
    single      \* the single-file variant (src/unnamed/part_000): its state and calls

vars == <<jobs, runs, batches, cur, nextJobId, started, edits, downloads, server, single>>

\* the variables of the batch variant (src/app/page.tsx)
batchVars == <<jobs, runs, batches, cur, nextJobId, started, edits, downloads>>

Idle == <<>>

JobIds == {jobs[k].id : k \in 1..Len(jobs)}

\* jobs.find((job) => job.id === jobId) over a list known to hold it
getJob(list, jobId) == list[CHOOSE k \in 1..Len(list) : list[k].id = jobId]

hasJob(list, jobId) == \E k \in 1..Len(list) : list[k].id = jobId

\* the jobs of a list, the arguments of the callback of prev.map
Items(list) == {list[k] : k \in 1..Len(list)}

\* prev.map((job) => f(job)): the update without the test on the id
mapJobAny(prev, jobId, f) == [k \in 1..Len(prev) |-> f[prev[k]]]

\* prev.map((job) => (job.id === jobId ? f(job) : job))
mapJob(prev, jobId, f) ==
    [k \in 1..Len(prev) |-> IF prev[k].id = jobId THEN f[prev[k]] ELSE prev[k]]

\* updateJobs(mutator): setJobs((prev) => resolveAllFilenames(mutator(prev)));
\* the argument is mutator(prev).  The updater is applied before updateJobs
\* returns, as processJob assumes when it reads the locals set inside it.
updateJobs(mutated) == resolveAllFilenames(mutated)

\* src/src/App.tsx after construction: the useState initial values, no
\* toast timer pending, no renamePdf invocation in flight, nothing sent
serverStart ==
    [selectedFile |-> None, status |-> "idle", toast |-> "", timers |-> 0,
     requests |-> {}, sent |-> 0, saved |-> None]

\* src/unnamed/part_000 after construction: the useState initial values, no
\* handleFile or lookupDoi invocation in flight, none started
singleStart ==
    [pdfFile |-> None, allDois |-> <<>>, selectedDoi |-> "", manualDoi |-> "",
     metadata |-> None, status |-> "statusUpload", loading |-> FALSE,
     calls |-> {}, called |-> 0]

Init ==
    /\ jobs = <<>>
    /\ runs = {}
    /\ batches = {}
    /\ cur = Idle
    /\ nextJobId = 0
    /\ started = 0
    /\ edits = 0
    /\ downloads = {}
    /\ server = serverStart
    /\ single = singleStart

----------------------------------------------------------------------------
(* User actions on the batch                                               *)

isPdf(file) == file.type = "application/pdf" \/ endsWith(toLowerCase(file.name), ".pdf")

newJob(file, n) ==
    [id |-> n, file |-> file, status |-> "queued", dois |-> <<>>,
     selectedDoi |-> None, manualDoi |-> None, metadata |-> None,
     error |-> None, resolvedFilename |-> None]

\* appendFiles with `() => items.map(...)` as updater, without `...prev`
AppendFilesReplacing ==
    \E files \in FileLists :
        LET items == SelectSeq(files, isPdf)
        IN  /\ cur = Idle
            /\ Len(items) > 0
            /\ nextJobId + Len(items) <= MaxJobs
            /\ jobs' = updateJobs([k \in 1..Len(items) |-> newJob(items[k], nextJobId + k)])
            /\ nextJobId' = nextJobId + Len(items)
            /\ UNCHANGED <<runs, batches, cur, started, edits, downloads, server, single>>

\* appendFiles (onUpload, onDrop)
AppendFiles ==
    \E files \in FileLists :
        LET items == SelectSeq(files, isPdf)
        IN  /\ cur = Idle
            /\ Len(items) > 0
            /\ nextJobId + Len(items) <= MaxJobs
            /\ jobs' = updateJobs(jobs \o [k \in 1..Len(items) |-> newJob(items[k], nextJobId + k)])
            /\ nextJobId' = nextJobId + Len(items)
            /\ UNCHANGED <<runs, batches, cur, started, edits, downloads, server, single>>

\* the Remove button of a row
RemoveJob ==
    \E jobId \in JobIds :
        /\ cur = Idle
        /\ jobs' = updateJobs(SelectSeq(jobs, LAMBDA item : item.id # jobId))
        /\ UNCHANGED <<runs, batches, cur, nextJobId, started, edits, downloads, server, single>>

\* the Clear button (disabled when jobs.length === 0)
ClearJobs ==
    /\ cur = Idle
    /\ Len(jobs) > 0
    /\ jobs' = updateJobs(<<>>)
    /\ UNCHANGED <<runs, batches, cur, nextJobId, started, edits, downloads, server, single>>

setSelectedDoi(item, value) == [item EXCEPT !.selectedDoi = Some(value)]

\* onChange of the DOI <select>: rendered when job.dois.length > 0, showing
\* job.selectedDoi ?? job.dois[0]; fires when another option is picked
SelectDoi ==
    \E jobId \in JobIds :
        LET job == getJob(jobs, jobId)
        IN  /\ cur = Idle
            /\ edits < MaxEdits
            /\ Len(job.dois) > 0
            /\ \E k \in 1..Len(job.dois) :
                   /\ Some(job.dois[k]) #
                          (IF job.selectedDoi # None THEN job.selectedDoi ELSE Some(job.dois[1]))
                   /\ jobs' = updateJobs(mapJob(jobs, jobId,
                                  [item \in Items(jobs) |-> setSelectedDoi(item, job.dois[k])]))
            /\ edits' = edits + 1
            /\ UNCHANGED <<runs, batches, cur, nextJobId, started, downloads, server, single>>

setManualDoi(item, value) == [item EXCEPT !.manualDoi = Some(value)]

\* onChange of the manual DOI <input>
EditManualDoi ==
    \E jobId \in JobIds, value \in ManualInputs :
        LET job == getJob(jobs, jobId)
        IN  /\ cur = Idle
            /\ edits < MaxEdits
            /\ value # (IF job.manualDoi # None THEN job.manualDoi[1] ELSE "")
            /\ jobs' = updateJobs(mapJob(jobs, jobId, [item \in Items(jobs) |-> setManualDoi(item, value)]))
            /\ edits' = edits + 1
            /\ UNCHANGED <<runs, batches, cur, nextJobId, started, downloads, server, single>>

----------------------------------------------------------------------------
(* processJob.  Each action is one synchronous stretch of the function.    *)
(* A stretch that is split in two steps holds the thread (cur) in between, *)
(* as does the return into the processAll loop, so that nothing            *)
(* interleaves with it.                                                    *)

RunOf(id) == <<"run", id>>

BatchOf(id) == <<"batch", id>>

startJob(job) == [job EXCEPT !.status = "extracting", !.error = None, !.metadata = None]

\* the locals of one invocation: owner is the processAll invocation that
\* awaits it (0 when a row button started it)
newRun(rid, jobId, file, owner) ==
    [id |-> rid, jobId |-> jobId, file |-> file, owner |-> owner, pc |-> "extract",
     detected |-> <<>>, doiToLookup |-> "", manualHasInput |-> FALSE,
     manualInvalid |-> FALSE]

\* lines 265-278 of processJob(jobId), called from a render whose `jobs` was snapshot
ProcessJobStart(jobId, snapshot, rid, owner) ==
    /\ hasJob(snapshot, jobId)
    /\ jobs' = updateJobs(mapJob(jobs, jobId, [job \in Items(jobs) |-> startJob(job)]))
    /\ runs' = runs \cup {newRun(rid, jobId, getJob(snapshot, jobId).file, owner)}

\* the Process button of a row (disabled unless status is queued)
ClickProcess ==
    \E jobId \in JobIds :
        /\ cur = Idle
        /\ getJob(jobs, jobId).status = "queued"
        /\ started < MaxRuns
        /\ ProcessJobStart(jobId, jobs, started + 1, 0)
        /\ started' = started + 1
        /\ UNCHANGED <<batches, cur, nextJobId, edits, downloads, server, single>>

\* the Fetch/Retry button of a row (disabled unless status is failed)
ClickRetry ==
    \E jobId \in JobIds :
        /\ cur = Idle
        /\ getJob(jobs, jobId).status = "failed"
        /\ started < MaxRuns
        /\ ProcessJobStart(jobId, jobs, started + 1, 0)
        /\ started' = started + 1
        /\ UNCHANGED <<batches, cur, nextJobId, edits, downloads, server, single>>

\* processJob returns: its caller, if it is a processAll loop, continues
returnTo(run) == IF run.owner # 0 THEN BatchOf(run.owner) ELSE Idle

setStatus(job, status) == [job EXCEPT !.status = status]

failJob(job, message) == [job EXCEPT !.status = "failed", !.error = Some(message)]

\* the failed update of a catch that does not read error.message: the text
\* the inner catch keeps for a thrown value that is no Error
failJobLookupFailed(job, message) ==
    [job EXCEPT !.status = "failed", !.error = Some("Crossref lookup failed"),
                !.metadata = None]

failJobNoMetadata(job, message) ==
    [job EXCEPT !.status = "failed", !.error = Some(message), !.metadata = None]

\* lines 292-300: what the updater computes from the job it finds
manualTrimOf(job) == trim(IF job.manualDoi # None THEN job.manualDoi[1] ELSE "")

selectedOf(job, detected) ==
    IF job.selectedDoi # None /\ Len(trim(job.selectedDoi[1])) > 0
    THEN job.selectedDoi[1]
    ELSE (IF detected # <<>> THEN detected[1] ELSE "")

doiToLookupOf(job, detected) ==
    IF manualTrimOf(job) # "" THEN cleanDoi(manualTrimOf(job)) ELSE selectedOf(job, detected)

\* the two updates of lines 280 and 288-308 on the job
setDetected(job, detected) ==
    [job EXCEPT !.status = "detecting", !.dois = detected,
                !.selectedDoi = Some(selectedOf(job, detected))]

\* the locals after lines 282-308; they keep their initial values when no
\* job has the id, because the updater then never reaches line 292
detectLocals(run, list, detected) ==
    IF hasJob(list, run.jobId)
    THEN LET job == getJob(list, run.jobId)
             doi == doiToLookupOf(job, detected)
             has == Len(manualTrimOf(job)) > 0
         IN  [run EXCEPT !.pc = "guard", !.detected = detected, !.doiToLookup = doi,
                         !.manualHasInput = has,
                         !.manualInvalid = has /\ Len(trim(doi)) = 0]
    ELSE [run EXCEPT !.pc = "guard", !.detected = detected]

\* extractTextFromPdf resolves: lines 280-308.  The run keeps the thread
\* for lines 310-336 (GuardStep), so `detecting` is a state of its own.
ExtractResolve ==
    \E run \in runs :
        LET detected == findDois(run.file.text)
        IN  /\ cur = Idle
            /\ run.pc = "extract"
            /\ jobs' = updateJobs(mapJob(jobs, run.jobId,
                                         [job \in Items(jobs) |-> setDetected(job, detected)]))
            /\ runs' = (runs \ {run}) \cup {detectLocals(run, jobs, detected)}
            /\ cur' = RunOf(run.id)
            /\ UNCHANGED <<batches, nextJobId, started, edits, downloads, server, single>>

\* processJob without its outer catch (lines 364-368): the rejection of
\* extractTextFromPdf propagates through `await processJob(id)` and ends the
\* loop of the processAll that called it
ExtractRejectUncaught ==
    \E run \in runs :
        /\ cur = Idle
        /\ run.pc = "extract"
        /\ runs' = runs \ {run}
        /\ batches' = {batch \in batches : batch.id # run.owner}
        /\ UNCHANGED <<jobs, cur, nextJobId, started, edits, downloads, server, single>>

\* extractTextFromPdf throws (pdf.js cannot load its worker or decode the
\* bytes): the outer catch, lines 364-368
ExtractReject ==
    \E run \in runs :
        /\ cur = Idle
        /\ run.pc = "extract"
        /\ jobs' = updateJobs(mapJob(jobs, run.jobId,
                                     [job \in Items(jobs) |-> failJob(job, "Error processing PDF")]))
        /\ runs' = runs \ {run}
        /\ cur' = returnTo(run)
        /\ UNCHANGED <<batches, nextJobId, started, edits, downloads, server, single>>

\* guardOutcome without the two "No DOI found" guards of lines 310-324
guardOutcomeUnguarded(run) == IF run.manualInvalid THEN "invalid" ELSE "fetch"

\* lines 310-333: which of the four branches the run takes
guardOutcome(run) ==
    IF Len(run.detected) = 0 THEN "noDetected"
    ELSE IF run.doiToLookup = "" \/ Len(trim(run.doiToLookup)) = 0 THEN "noDoi"
    ELSE IF run.manualInvalid THEN "invalid"
    ELSE "fetch"

guardUpdate(job, outcome) ==
    CASE outcome = "noDetected" -> failJobNoMetadata(job, "No DOI found")
      [] outcome = "noDoi" -> failJob(job, "No DOI found")
      [] outcome = "invalid" -> failJob(job, "Invalid DOI")
      [] OTHER -> setStatus(job, "fetching")

\* lines 310-336: fail and return, or enter fetching and call lookupDoi
GuardStep ==
    \E run \in runs :
        LET outcome == guardOutcome(run)
        IN  /\ cur = RunOf(run.id)
            /\ run.pc = "guard"
            /\ jobs' = updateJobs(mapJob(jobs, run.jobId,
                                         [job \in Items(jobs) |-> guardUpdate(job, outcome)]))
            /\ runs' = IF outcome = "fetch"
                       THEN (runs \ {run}) \cup {[run EXCEPT !.pc = "lookup"]}
                       ELSE runs \ {run}
            /\ cur' = IF outcome = "fetch" THEN Idle ELSE returnTo(run)
            /\ UNCHANGED <<batches, nextJobId, started, edits, downloads, server, single>>

\* fetchCrossref on a response: [ok, work] or [ok, error] (lookupDoi is fetchCrossref)
fetchCrossref(response) ==
    IF response.status < 200 \/ response.status > 299
    THEN [ok |-> FALSE,
          error |-> "Crossref request failed (" \o String(response.status) \o ")"]
    ELSE IF response.message = None
    THEN [ok |-> FALSE, error |-> "Crossref response missing metadata"]
    ELSE [ok |-> TRUE, work |-> response.message[1]]

readyJob(job, work, doiToLookup) ==
    [job EXCEPT !.metadata = Some(work), !.selectedDoi = Some(doiToLookup),
                !.status = "ready", !.error = None]

\* lookupDoi resolves: lines 337-349
LookupResolve ==
    \E run \in runs :
        /\ cur = Idle
        /\ run.pc = "lookup"
        /\ \E response \in Responses(run.doiToLookup) :
               LET result == fetchCrossref(response)
               IN  /\ result.ok
                   /\ jobs' = updateJobs(mapJob(jobs, run.jobId,
                                  [job \in Items(jobs) |-> readyJob(job, result.work, run.doiToLookup)]))
        /\ runs' = runs \ {run}
        /\ cur' = returnTo(run)
        /\ UNCHANGED <<batches, nextJobId, started, edits, downloads, server, single>>

\* lookupDoi throws: the inner catch, lines 350-363
LookupReject ==
    \E run \in runs :
        /\ cur = Idle
        /\ run.pc = "lookup"
        /\ \E response \in Responses(run.doiToLookup) :
               LET result == fetchCrossref(response)
               IN  /\ ~result.ok
                   /\ jobs' = updateJobs(mapJob(jobs, run.jobId,
                                  [job \in Items(jobs) |-> failJobNoMetadata(job, result.error)]))
        /\ runs' = runs \ {run}
        /\ cur' = returnTo(run)
        /\ UNCHANGED <<batches, nextJobId, started, edits, downloads, server, single>>

----------------------------------------------------------------------------
(* processAll: ids is taken from the `jobs` of the render that was clicked, *)
(* and so is the `jobs` that getJob reads in every processJob it calls.     *)

idsOf(list) == [k \in 1..Len(list) |-> list[k].id]

\* the `jobs` of the closure, as far as it is read: each job's id and file
\* (getJob in processJob) and the status it was rendered with
snapshotOf(list) ==
    [k \in 1..Len(list) |->
        [id |-> list[k].id, file |-> list[k].file, status |-> list[k].status]]

\* processAll with `void processJob(id)` in place of `await processJob(id)`:
\* every job of the batch is started by the click
ClickProcessAllNoAwait ==
    /\ cur = Idle
    /\ Len(jobs) > 0
    /\ started + Len(jobs) <= MaxRuns
    /\ jobs' = updateJobs([k \in 1..Len(jobs) |-> startJob(jobs[k])])
    /\ runs' = runs \cup {newRun(started + k, jobs[k].id, jobs[k].file, started + 1) :
                              k \in 1..Len(jobs)}
    /\ batches' = batches \cup
           {[id |-> started + 1, ids |-> idsOf(jobs), snapshot |-> snapshotOf(jobs),
             pos |-> Len(jobs)]}
    /\ started' = started + Len(jobs)
    /\ UNCHANGED <<cur, nextJobId, edits, downloads, server, single>>

\* the Process All button (disabled when jobs.length === 0): the loop runs
\* up to its first await, inside processJob(ids[0])
ClickProcessAll ==
    /\ cur = Idle
    /\ Len(jobs) > 0
    /\ started + Len(jobs) <= MaxRuns
    /\ ProcessJobStart(idsOf(jobs)[1], jobs, started + 1, started + 1)
    /\ batches' = batches \cup
           {[id |-> started + 1, ids |-> idsOf(jobs), snapshot |-> snapshotOf(jobs), pos |-> 1]}
    /\ started' = started + Len(jobs)
    /\ UNCHANGED <<cur, nextJobId, edits, downloads, server, single>>

\* `await processJob(id)` returned and another id is left: the next call
BatchNext ==
    \E batch \in batches :
        /\ cur = BatchOf(batch.id)
        /\ batch.pos < Len(batch.ids)
        /\ ProcessJobStart(batch.ids[batch.pos + 1], batch.snapshot,
                           batch.id + batch.pos, batch.id)
        /\ batches' = (batches \ {batch}) \cup {[batch EXCEPT !.pos = batch.pos + 1]}
        /\ cur' = Idle
        /\ UNCHANGED <<nextJobId, started, edits, downloads, server, single>>

\* `await processJob(id)` returned for the last id: processAll returns
BatchReturn ==
    \E batch \in batches :
        /\ cur = BatchOf(batch.id)
        /\ batch.pos = Len(batch.ids)
        /\ batches' = batches \ {batch}
        /\ cur' = Idle
        /\ UNCHANGED <<jobs, runs, nextJobId, started, edits, downloads, server, single>>

----------------------------------------------------------------------------
(* downloadJob and downloadAll.  Both read the job objects of the render   *)
(* that was clicked: downloadJob its argument, downloadAll the `jobs` of   *)
(* its closure.                                                            *)

\* bound: the download invocations in flight at one time
MaxDownloads == 1

allProcessed(list) ==
    Len(list) > 0 /\ \A k \in 1..Len(list) : list[k].status \in {"ready", "failed"}

\* a job object as downloadJob reads it: job.file and job.resolvedFilename
downloadItem(job) ==
    [id |-> job.id, file |-> job.file, resolvedFilename |-> job.resolvedFilename]

\* the locals of one invocation: items are the job objects to download,
\* all tells a downloadAll from the downloadJob of a row button
newDownload(items, all) == [items |-> items, pos |-> 1, pc |-> "buffer", all |-> all]

\* anchor.download of downloadJob(job)
downloadName(item) ==
    IF item.resolvedFilename # None THEN item.resolvedFilename[1]
    ELSE getFallbackName(item.file.name)

\* the Download All button (disabled unless allProcessed): the loop runs up
\* to `await job.file.arrayBuffer()` in downloadJob of the first job
ClickDownloadAll ==
    /\ cur = Idle
    /\ allProcessed(jobs)
    /\ Cardinality(downloads) < MaxDownloads
    /\ downloads' = downloads \cup
           {newDownload([k \in 1..Len(jobs) |-> downloadItem(jobs[k])], TRUE)}
    /\ UNCHANGED <<jobs, runs, batches, cur, nextJobId, started, edits, server, single>>

\* the Download button of a row (disabled unless status is ready or failed)
ClickDownload ==
    \E jobId \in JobIds :
        /\ cur = Idle
        /\ getJob(jobs, jobId).status \in {"ready", "failed"}
        /\ Cardinality(downloads) < MaxDownloads
        /\ downloads' = downloads \cup
               {newDownload(<<downloadItem(getJob(jobs, jobId))>>, FALSE)}
        /\ UNCHANGED <<jobs, runs, batches, cur, nextJobId, started, edits, server, single>>

\* arrayBuffer() resolves: lines 380-390, anchor.click() saves the file
\* under downloadName; downloadJob returns, and downloadAll goes on to its
\* setTimeout(resolve, 500)
DownloadSaves ==
    \E download \in downloads :
        /\ cur = Idle
        /\ download.pc = "buffer"
        /\ downloads' = IF download.all
                        THEN (downloads \ {download}) \cup {[download EXCEPT !.pc = "sleep"]}
                        ELSE downloads \ {download}
        /\ UNCHANGED <<jobs, runs, batches, cur, nextJobId, started, edits, server, single>>

\* the 500 ms timer of downloadAll fires: the next downloadJob, or the return
DownloadWakes ==
    \E download \in downloads :
        /\ cur = Idle
        /\ download.pc = "sleep"
        /\ downloads' = IF download.pos < Len(download.items)
                        THEN (downloads \ {download}) \cup
                                 {[download EXCEPT !.pos = download.pos + 1, !.pc = "buffer"]}
                        ELSE downloads \ {download}
        /\ UNCHANGED <<jobs, runs, batches, cur, nextJobId, started, edits, server, single>>

\* the steps that write the batch; the download steps only read it and are
\* taken together with these in DownloadNext
Next ==
    \/ AppendFiles
    \/ RemoveJob
    \/ ClearJobs
    \/ SelectDoi
    \/ EditManualDoi
    \/ ClickProcess
    \/ ClickRetry
    \/ ClickProcessAll
    \/ ExtractResolve
    \/ ExtractReject
    \/ GuardStep
    \/ LookupResolve
    \/ LookupReject
    \/ BatchNext
    \/ BatchReturn

Spec == Init /\ [][Next]_vars

----------------------------------------------------------------------------
(* Properties                                                              *)

\* the processJob invocation that holds the thread at lines 310-336
atGuard(run) == run.pc = "guard" /\ cur = RunOf(run.id)

\* the runs that a step starts
startedRuns == {run \in runs' : \A old \in runs : old.id # run.id}

\* C1: in every reachable state no two jobs of the batch have resolved
\* filenames that are equal when compared case-insensitively (and every job
\* has a resolved filename).
C1_ResolvedNamesUnique ==
    \A i, j \in 1..Len(jobs) :
        /\ jobs[i].resolvedFilename # None
        /\ i # j => toLowerCase(jobs[i].resolvedFilename[1])
                        # toLowerCase(jobs[j].resolvedFilename[1])

\* two ready jobs whose metadata-derived candidates collide
C1_Witness ==
    \E i, j \in 1..Len(jobs) :
        /\ i < j
        /\ jobs[i].status = "ready" /\ jobs[j].status = "ready"
        /\ toLowerCase(computeCandidateName(jobs[i])) = toLowerCase(computeCandidateName(jobs[j]))
        /\ jobs[j].resolvedFilename # Some(computeCandidateName(jobs[j]))

\* C2: in every reachable state, for every job, metadata is present if and
\* only if the job's status is ready.
C2_MetadataIffReady ==
    \A k \in 1..Len(jobs) : (jobs[k].metadata # None) <=> (jobs[k].status = "ready")

StateMachine ==
    { <<"queued", "extracting">>, <<"extracting", "detecting">>, <<"extracting", "failed">>,
      <<"detecting", "fetching">>, <<"detecting", "failed">>, <<"fetching", "ready">>,
      <<"fetching", "failed">>, <<"failed", "extracting">>, <<"ready", "fetching">> }

\* C3: every change of a job's status is one of the transitions of the
\* state machine.
C3_OnlyListedTransitions ==
    [][\A i \in 1..Len(jobs), j \in 1..Len(jobs') :
           (jobs[i].id = jobs'[j].id /\ jobs[i].status # jobs'[j].status)
               => <<jobs[i].status, jobs'[j].status>> \in StateMachine]_vars

\* C4: a processing run of a job whose text yields zero DOIs and whose
\* manual DOI input is empty ends, at the detecting step, with the job failed
\* and error "No DOI found"; such a job never has status fetching and no
\* lookup is ever outstanding for a run that detected nothing.
C4_NoDoiFails ==
    [][/\ \A run \in runs :
              (atGuard(run) /\ run.detected = <<>> /\ ~run.manualHasInput)
                  => /\ \A later \in runs' : later.id # run.id
                     /\ hasJob(jobs, run.jobId)
                            => /\ hasJob(jobs', run.jobId)
                               /\ getJob(jobs', run.jobId).status = "failed"
                               /\ getJob(jobs', run.jobId).error = Some("No DOI found")
       /\ \A k \in 1..Len(jobs') :
              jobs'[k].status = "fetching" => findDois(jobs'[k].file.text) # <<>>
       /\ \A run \in runs' : run.pc = "lookup" => run.detected # <<>>]_vars

\* a job without a DOI in its text and without manual input has failed with "No DOI found"
C4_Witness ==
    \E k \in 1..Len(jobs) :
        /\ findDois(jobs[k].file.text) = <<>>
        /\ manualTrimOf(jobs[k]) = ""
        /\ jobs[k].status = "failed"
        /\ jobs[k].error = Some("No DOI found")

\* C5: in the detecting step, whenever a usable DOI is available (a manual
\* input that normalizes to a non-empty string or, without manual input, a
\* detected DOI) the job moves to fetching, and the lookup uses the manual
\* DOI when one is present; in particular with zero detected DOIs.
C5_UsableDoiFetches ==
    [][\A run \in runs :
           (atGuard(run) /\ hasJob(jobs, run.jobId))
               => LET job == getJob(jobs, run.jobId)
                      manual == cleanDoi(manualTrimOf(job))
                      usable == IF manualTrimOf(job) # "" THEN manual # ""
                                ELSE run.detected # <<>>
                  IN  usable
                          => /\ getJob(jobs', run.jobId).status = "fetching"
                             /\ \E later \in runs' :
                                    /\ later.id = run.id
                                    /\ later.pc = "lookup"
                                    /\ manualTrimOf(job) # "" => later.doiToLookup = manual]_vars

\* C6: when the manual DOI input is non-empty but normalizes to the empty
\* string, the run ends with the job failed and error "Invalid DOI", and no
\* lookup is issued.
C6_InvalidManualDoi ==
    [][\A run \in runs :
           (atGuard(run) /\ hasJob(jobs, run.jobId))
               => LET job == getJob(jobs, run.jobId)
                  IN  (manualTrimOf(job) # "" /\ cleanDoi(manualTrimOf(job)) = "")
                          => /\ getJob(jobs', run.jobId).status = "failed"
                             /\ getJob(jobs', run.jobId).error = Some("Invalid DOI")
                             /\ \A later \in runs' : later.id # run.id]_vars

\* C7: when the user selects a different DOI for a job whose status is
\* ready, the job re-enters fetching (a lookup of the new DOI starts, with no
\* extraction).
C7_SelectRefetches ==
    [][\A k \in 1..Len(jobs) :
           (/\ edits' = edits + 1
            /\ jobs[k].status = "ready"
            /\ jobs'[k].selectedDoi # jobs[k].selectedDoi)
               => jobs'[k].status = "fetching"]_vars

\* the runs that take a step: the one started, or the one whose locals
\* change or that returns
actingRuns == startedRuns \cup {run \in runs : run \notin runs'}

\* C8: process all advances only jobs whose status is queued: a job that
\* is ready, failed or in progress when process all is invoked keeps its
\* status, metadata and error in every step of that process-all run.
C8_OnlyQueuedAdvanced ==
    [][\A run \in actingRuns, batch \in batches \cup batches' :
           (/\ batch.id = run.owner
            /\ getJob(batch.snapshot, run.jobId).status # "queued"
            /\ hasJob(jobs, run.jobId) /\ hasJob(jobs', run.jobId))
               => LET before == getJob(jobs, run.jobId)
                      after == getJob(jobs', run.jobId)
                  IN  /\ after.status = before.status
                      /\ after.metadata = before.metadata
                      /\ after.error = before.error]_vars

\* C9: at any time at most one metadata lookup is outstanding across the
\* batch, and at most one job has status fetching.
C9_OneLookupAtATime ==
    /\ Cardinality({run \in runs : run.pc = "lookup"}) <= 1
    /\ Cardinality({k \in 1..Len(jobs) : jobs[k].status = "fetching"}) <= 1

isTerminal(status) == status \in {"ready", "failed"}

\* what every process-all run does: one processJob at a time, for the ids
\* of the batch in the order the jobs were added; a previous job that is no
\* longer in the batch counts as finished only if removedCounts
batchInOrder(removedCounts) ==
    /\ \A batch \in batches' :
           /\ \A i, j \in 1..Len(batch.ids) : i < j => batch.ids[i] < batch.ids[j]
           /\ Cardinality({run \in runs' : run.owner = batch.id}) <= 1
    /\ \A run \in startedRuns :
           run.owner # 0
               => \E batch \in batches' :
                      /\ batch.id = run.owner
                      /\ run.jobId = batch.ids[batch.pos]
                      /\ (\A before \in batches : before.id # batch.id) =>
                             /\ batch.pos = 1
                             /\ batch.ids = [k \in 1..Len(jobs) |-> jobs[k].id]
                      /\ batch.pos > 1 =>
                             /\ \E before \in batches :
                                    /\ before.id = batch.id
                                    /\ before.ids = batch.ids
                                    /\ before.pos = batch.pos - 1
                             /\ \A other \in runs : other.owner # batch.id
                             /\ IF hasJob(jobs, batch.ids[batch.pos - 1])
                                THEN isTerminal(getJob(jobs, batch.ids[batch.pos - 1]).status)
                                ELSE removedCounts

\* C10 as stated: within one process-all run, jobs are started in batch
\* order and the next job is started only after the previous job of that
\* run has reached ready or failed.
C10_InOrderAfterTerminal == [][batchInOrder(FALSE)]_vars

\* C10 amended: within one process-all run, jobs are started in batch order
\* and the next job is started only after the processJob call of the
\* previous job has returned, when the previous job is ready or failed or
\* has been removed from the batch.
C10_InOrderAfterReturn == [][batchInOrder(TRUE)]_vars

\* a process-all run has started its second job and its first one is ready or failed
C10_Witness ==
    \E batch \in batches :
        /\ batch.pos = 2
        /\ \E run \in runs : run.owner = batch.id /\ run.jobId = batch.ids[2]
        /\ hasJob(jobs, batch.ids[1])
        /\ isTerminal(getJob(jobs, batch.ids[1]).status)

----------------------------------------------------------------------------
(* Progress of process all                                                 *)

\* The steps that end a wait, written over runs and cur alone.  Each is
\* enabled exactly when the step of processJob or processAll it stands for
\* is, and that step ends its being enabled for the run or batch concerned.

\* extractTextFromPdf settles for a run (ExtractResolve or ExtractReject)
ExtractSettles ==
    \E run \in runs : cur = Idle /\ run.pc = "extract" /\ runs' = runs \ {run}

\* the run that holds the thread goes on from line 308 (GuardStep)
GuardRuns ==
    \E run \in runs :
        cur = RunOf(run.id) /\ run.pc = "guard" /\ cur' \in {Idle, returnTo(run)}

\* lookupDoi settles for a run (LookupResolve or LookupReject)
LookupSettles ==
    \E run \in runs : cur = Idle /\ run.pc = "lookup" /\ runs' = runs \ {run}

\* the loop of processAll goes on after an await (BatchNext or BatchReturn)
BatchRuns == \E batch \in batches : cur = BatchOf(batch.id) /\ cur' = Idle

\* every promise that is awaited settles (extractTextFromPdf, lookupDoi), and
\* a continuation that is ready to run is run
Fairness ==
    /\ WF_runs(ExtractSettles)
    /\ WF_cur(GuardRuns)
    /\ WF_runs(LookupSettles)
    /\ WF_cur(BatchRuns)

FairSpec == Spec /\ Fairness

\* the processAll invocation b has not yet called processJob(j)
pendingIn(b, j) ==
    \E batch \in batches :
        /\ batch.id = b
        /\ \E k \in (batch.pos + 1)..Len(batch.ids) : batch.ids[k] = j

\* the processJob(j) called by the processAll invocation b has not returned
runningIn(b, j) == \E run \in runs : run.owner = b /\ run.jobId = j

\* job j has been removed, or is ready or failed
settled(j) == hasJob(jobs, j) => isTerminal(getJob(jobs, j).status)

\* C11: assuming every extraction and every lookup completes or fails, a
\* process-all run calls processJob for every job that was in the batch at
\* invocation, whatever happened to the jobs before it, and every such call
\* returns with the job ready or failed, unless the job was removed.
C11_ProcessAllReachesEveryJob ==
    \A b \in 1..MaxRuns, j \in 1..MaxJobs :
        /\ pendingIn(b, j) ~> runningIn(b, j)
        /\ runningIn(b, j) ~> (~runningIn(b, j) /\ settled(j))

\* the first job of a process-all run failed and the run is looking up the
\* DOI of its second job
C11_Witness ==
    \E batch \in batches :
        /\ batch.pos = 2
        /\ hasJob(jobs, batch.ids[1])
        /\ getJob(jobs, batch.ids[1]).status = "failed"
        /\ \E run \in runs :
               run.owner = batch.id /\ run.jobId = batch.ids[2] /\ run.pc = "lookup"

----------------------------------------------------------------------------
(* Removal while processing                                                *)

\* C12: a job that left the batch never reappears, and a step of a
\* processJob invocation whose job has been removed or cleared (the
\* completion of its extraction or lookup, and the guards between them)
\* leaves the batch as it is: no status, DOI list, selected DOI, metadata,
\* error or resolved filename of a remaining job changes.
C12_CompletionForRemovedJobDiscarded ==
    [][/\ \A j \in 1..nextJobId : ~hasJob(jobs, j) => ~hasJob(jobs', j)
       /\ \A run \in runs :
              (run \notin runs' /\ ~hasJob(jobs, run.jobId)) => jobs' = jobs]_vars

\* the extraction of a removed job has completed while another job remains
C12_Witness ==
    \E run \in runs :
        /\ run.pc = "guard"
        /\ ~hasJob(jobs, run.jobId)
        /\ Len(jobs) > 0

----------------------------------------------------------------------------
(* The metadata lookup                                                     *)

\* the requests one call of lookupDoi issues before it settles, by registry:
\* lookupDoi is fetchCrossref, which calls fetch once
requestsOf(run) == <<"api.crossref.org">>

\* the runs whose lookupDoi settles in this step
lookupsSettling == {run \in runs : run.pc = "lookup" /\ run \notin runs'}

\* the error message of fetchCrossref for a 5xx answer
isServerError(error) ==
    \E status \in {500, 502, 503, 504} :
        error = Some("Crossref request failed (" \o String(status) \o ")")

\* C13: a lookup that is answered with a 5xx status is retried, up to two
\* additional attempts: a job fails with the error of a 5xx answer only when
\* the lookup has made three requests to the registry (so 503, 503, 200
\* makes the job ready).
C13_ServerErrorRetried ==
    [][\A run \in lookupsSettling :
           (/\ hasJob(jobs', run.jobId)
            /\ getJob(jobs', run.jobId).status = "failed"
            /\ isServerError(getJob(jobs', run.jobId).error))
               => Len(SelectSeq(requestsOf(run), LAMBDA r : r = "api.crossref.org")) = 3]_vars

\* C14: when the primary registry fails for a DOI the secondary registry is
\* queried with the same DOI: a job becomes failed by a lookup only after a
\* request to a registry other than the primary one.
C14_SecondaryQueriedBeforeFailure ==
    [][\A run \in lookupsSettling :
           (/\ hasJob(jobs', run.jobId)
            /\ getJob(jobs', run.jobId).status = "failed")
               => \E k \in 1..Len(requestsOf(run)) :
                      requestsOf(run)[k] # "api.crossref.org"]_vars

----------------------------------------------------------------------------
(* resolveAllFilenames on its own: the batches an updater hands to it       *)

\* bound of the batches resolved
MaxBatch == 3

\* the files of these batches; their text is not read
ResolverFiles ==
    { [name |-> n, type |-> "application/pdf", text |-> ""] :
          n \in {"Paper.pdf", "paper.pdf", "a.pdf", "a (2).pdf", "?.PDF"} }

\* a job as appendFiles creates it, as processJob leaves it when ready, or
\* as the outer catch of a second processJob leaves a ready job
ResolverJobs(n) ==
    {newJob(file, n) : file \in ResolverFiles}
        \cup UNION {LET ready == readyJob(newJob(file, n), WorkOf("10.1000/a"), "10.1000/a")
                    IN  {ready, failJob(ready, "Error processing PDF")} :
                        file \in {f \in ResolverFiles : f.name = "a.pdf"}}

\* mutator(prev) of some updateJobs call: jobs without a resolved filename yet
ResolverInit ==
    /\ \E len \in 1..MaxBatch :
           jobs \in {list \in [1..len -> UNION {ResolverJobs(n) : n \in 1..len}] :
                         \A k \in 1..len : list[k].id = k}
    /\ runs = {}
    /\ batches = {}
    /\ cur = Idle
    /\ nextJobId = Len(jobs)
    /\ started = 0
    /\ edits = 0
    /\ downloads = {}
    /\ server = serverStart
    /\ single = singleStart

\* setJobs((prev) => resolveAllFilenames(mutator(prev))): the resolution
ApplyResolve ==
    /\ cur = Idle
    /\ jobs' = updateJobs(jobs)
    /\ UNCHANGED <<runs, batches, cur, nextJobId, started, edits, downloads, server, single>>

ResolverNext ==
    \/ ApplyResolve
    \/ RemoveJob

ResolverSpec == ResolverInit /\ [][ResolverNext]_vars

\* the batch has been through resolveAllFilenames
isResolved(list) == \A k \in 1..Len(list) : list[k].resolvedFilename # None

candidatesOf(list) == [k \in 1..Len(list) |-> computeCandidateName(list[k])]

namesOf(list) == [k \in 1..Len(list) |-> list[k].resolvedFilename[1]]

\* the lower-case forms of the names given to the jobs before the k-th
usedBefore(list, k) == {toLowerCase(list[i].resolvedFilename[1]) : i \in 1..(k - 1)}

\* `${base} (${n}).pdf` for a candidate that ends in ".pdf"
numbered(candidate, n) ==
    slice(candidate, 0, Len(candidate) - 4) \o " (" \o String(n) \o ").pdf"

\* C15: jobs are resolved in batch order; a job whose candidate is free
\* (case-insensitively) among the names given before it gets the candidate,
\* and one whose candidate is taken gets the candidate's own base, casing
\* kept, with " (n)" before ".pdf" for the smallest n >= 2 that is free;
\* candidates Paper.pdf, paper.pdf, Paper.pdf resolve to Paper.pdf,
\* paper (2).pdf, Paper (3).pdf.
C15_SmallestFreeSuffix ==
    isResolved(jobs) =>
        /\ \A k \in 1..Len(jobs) :
               LET candidate == computeCandidateName(jobs[k])
                   used == usedBefore(jobs, k)
                   name == jobs[k].resolvedFilename[1]
               IN  IF toLowerCase(candidate) \notin used
                   THEN name = candidate
                   ELSE \E n \in 2..(k + 1) :
                            /\ name = numbered(candidate, n)
                            /\ toLowerCase(name) \notin used
                            /\ \A m \in 2..(n - 1) :
                                   toLowerCase(numbered(candidate, m)) \in used
        /\ candidatesOf(jobs) = <<"Paper.pdf", "paper.pdf", "Paper.pdf">>
               => namesOf(jobs) = <<"Paper.pdf", "paper (2).pdf", "Paper (3).pdf">>

\* the batch of the example, resolved
C15_Witness ==
    /\ isResolved(jobs)
    /\ candidatesOf(jobs) = <<"Paper.pdf", "paper.pdf", "Paper.pdf">>
    /\ namesOf(jobs) = <<"Paper.pdf", "paper (2).pdf", "Paper (3).pdf">>

\* C16: a job whose candidate filename no earlier job of the batch has
\* (case-insensitively) gets its candidate unchanged as resolved filename,
\* also when an earlier job's disambiguated name coincides with it.
C16_FirstRequesterKeepsCandidate ==
    isResolved(jobs) =>
        \A k \in 1..Len(jobs) :
            (\A i \in 1..(k - 1) :
                 toLowerCase(computeCandidateName(jobs[i]))
                     # toLowerCase(computeCandidateName(jobs[k])))
                => jobs[k].resolvedFilename[1] = computeCandidateName(jobs[k])

\* a batch with the resolved filenames taken away
withoutNames(list) == [k \in 1..Len(list) |-> [list[k] EXCEPT !.resolvedFilename = None]]

\* prev.filter((item) => item.id !== jobId), the jobs keeping the names they had
withoutJob(list, jobId) == SelectSeq(list, LAMBDA item : item.id # jobId)

\* C17: resolution is idempotent, and the resolved names depend only on each
\* job's status, metadata and file name and on batch order: resolving the
\* output of resolveAllFilenames again changes nothing, and a batch resolves
\* to the same names whatever names its jobs carried before (none, or those
\* of the batch before a removal).
C17_ResolveIdempotent ==
    LET once == resolveAllFilenames(jobs)
    IN  /\ resolveAllFilenames(once) = once
        /\ namesOf(resolveAllFilenames(withoutNames(jobs))) = namesOf(once)
        /\ \A j \in 1..MaxBatch :
               namesOf(resolveAllFilenames(withoutJob(once, j)))
                   = namesOf(resolveAllFilenames(withoutNames(withoutJob(once, j))))

\* a resolved batch in which a job did not get its candidate
C17_Witness ==
    /\ isResolved(jobs)
    /\ \E k \in 1..Len(jobs) : jobs[k].resolvedFilename[1] # computeCandidateName(jobs[k])
    /\ resolveAllFilenames(jobs) = jobs

----------------------------------------------------------------------------
(* Further invariants of the batch                                         *)

\* C18: in every reachable state a job has an error message only if its
\* status is failed.
C18_ErrorOnlyWhenFailed ==
    \A k \in 1..Len(jobs) : jobs[k].error # None => jobs[k].status = "failed"

\* the name a job gets from a base: the base itself or a numbered form of it
fromBase(name, base) ==
    \/ name = base \o ".pdf"
    \/ \E n \in 2..(MaxBatch + 1) : name = base \o " (" \o String(n) \o ").pdf"

\* the original file name without its ".pdf" (any casing), sanitized, or
\* "untitled" when nothing is left
fileBase(fileName) ==
    LET stem == IF endsWith(toLowerCase(fileName), ".pdf")
                THEN SubSeq(fileName, 1, Len(fileName) - 4) ELSE fileName
        clean == sanitizeFilename(stem)
    IN  IF clean = "" THEN "untitled" ELSE clean

\* C19: every job of the batch has a non-empty resolved filename ending in
\* ".pdf"; a job that is not ready is named after its sanitized original
\* file name ("untitled" when that is empty), whatever metadata it holds,
\* and a ready job with metadata is named after the metadata.
C19_EveryJobNamed ==
    isResolved(jobs) =>
        \A k \in 1..Len(jobs) :
            LET name == jobs[k].resolvedFilename[1]
            IN  /\ Len(name) > 4
                /\ SubSeq(name, Len(name) - 3, Len(name)) = ".pdf"
                /\ jobs[k].status # "ready" => fromBase(name, fileBase(jobs[k].file.name))
                /\ (jobs[k].status = "ready" /\ jobs[k].metadata = Some(WorkOf("10.1000/a")))
                       => fromBase(name, "2021 - S - T - J")

\* a resolved batch with a file whose name sanitizes to nothing and a failed
\* job that still holds metadata
C19_Witness ==
    /\ isResolved(jobs)
    /\ \E k \in 1..Len(jobs) :
           jobs[k].file.name = "?.PDF" /\ jobs[k].resolvedFilename = Some("untitled.pdf")
    /\ \E k \in 1..Len(jobs) :
           /\ jobs[k].status = "failed"
           /\ jobs[k].metadata # None
           /\ jobs[k].resolvedFilename = Some("a.pdf")

\* the step adds n jobs at the end of the batch: the jobs there were stay
\* as they are, the new ones are queued and have ids not used before
appendsQueued(n) ==
    /\ Len(jobs') = Len(jobs) + n
    /\ SubSeq(jobs', 1, Len(jobs)) = jobs
    /\ \A k \in (Len(jobs) + 1)..Len(jobs') :
           /\ jobs'[k].status = "queued"
           /\ jobs'[k].id > nextJobId
           /\ \A i \in 1..(k - 1) : jobs'[i].id # jobs'[k].id

\* C20: the sequence of job ids changes only by a removal, a clear or an
\* append; every step of processJob and processAll, every DOI selection and
\* manual DOI edit keeps it (same ids, same order), and an append adds new
\* queued jobs at the end without removing or reordering the others.
C20_IdsChangeOnlyByRemoveClearAppend ==
    [][/\ idsOf(jobs') # idsOf(jobs)
              => \/ RemoveJob
                 \/ ClearJobs
                 \/ AppendFiles /\ \E n \in 1..MaxJobs : appendsQueued(n)
       /\ (runs' # runs \/ batches' # batches \/ cur' # cur \/ edits' # edits)
              => idsOf(jobs') = idsOf(jobs)]_vars

\* both jobs of a batch have been processed and a DOI was selected or typed
C20_Witness ==
    /\ idsOf(jobs) = <<1, 2>>
    /\ jobs[1].status = "ready"
    /\ jobs[2].status = "failed"
    /\ edits > 0

----------------------------------------------------------------------------
(* Downloads                                                               *)

\* the download steps among the actions of the rows: a download changes
\* nothing of the batch, and the batch changes under a download in flight
DownloadNext ==
    \/ AppendFiles
    \/ RemoveJob
    \/ ClearJobs
    \/ SelectDoi
    \/ EditManualDoi
    \/ ClickProcess
    \/ ClickRetry
    \/ ExtractResolve
    \/ ExtractReject
    \/ GuardStep
    \/ LookupResolve
    \/ LookupReject
    \/ ClickDownloadAll
    \/ ClickDownload
    \/ DownloadSaves
    \/ DownloadWakes

DownloadSpec == Init /\ [][DownloadNext]_vars

\* the downloadAll invocations that start in this step
downloadAllStarting ==
    {download \in downloads' : download.all /\ \A old \in downloads : ~old.all}

\* the downloadAll invocations whose anchor.click() happens in this step
downloadAllSaving ==
    {download \in downloads :
         /\ download.all
         /\ download.pc = "buffer"
         /\ [download EXCEPT !.pc = "sleep"] \in downloads'}

----------------------------------------------------------------------------
(* Errors of extraction and lookup                                         *)

\* the processJob invocations that return in this step
returning == {run \in runs : \A later \in runs' : later.id # run.id}

\* the messages fetchCrossref throws for the answers a lookup of doi can get
lookupErrors(doi) ==
    {fetchCrossref(response).error :
         response \in {r \in Responses(doi) : ~fetchCrossref(r).ok}}

\* the jobs other than jobId keep their status, metadata and error
othersKept(jobId) ==
    \A i \in 1..Len(jobs), j \in 1..Len(jobs') :
        (jobs[i].id = jobs'[j].id /\ jobs[i].id # jobId)
            => /\ jobs'[j].status = jobs[i].status
               /\ jobs'[j].metadata = jobs[i].metadata
               /\ jobs'[j].error = jobs[i].error

\* C22: a run whose extraction is awaited either goes on to the guards or,
\* when extractTextFromPdf throws, returns with its job failed and error
\* "Error processing PDF", having issued no lookup; a run whose lookup is
\* awaited returns with its job ready and holding the work of the DOI looked
\* up or, when the lookup fails, with its job failed, the error being the
\* message of fetchCrossref and the metadata absent.  In the failing cases
\* no other job's status, metadata or error changes.
C22_ErrorsEndRunFailed ==
    [][\A run \in runs :
           /\ (run.pc = "extract" /\ run \notin runs')
                  => \/ \E later \in runs' : later.id = run.id /\ later.pc = "guard"
                     \/ /\ run \in returning
                        /\ othersKept(run.jobId)
                        /\ hasJob(jobs, run.jobId)
                               => /\ hasJob(jobs', run.jobId)
                                  /\ getJob(jobs', run.jobId).status = "failed"
                                  /\ getJob(jobs', run.jobId).error
                                         = Some("Error processing PDF")
           /\ (run.pc = "lookup" /\ run \notin runs')
                  => /\ run \in returning
                     /\ hasJob(jobs, run.jobId)
                            => LET after == getJob(jobs', run.jobId)
                               IN  \/ /\ after.status = "ready"
                                      /\ after.metadata = Some(WorkOf(run.doiToLookup))
                                   \/ /\ after.status = "failed"
                                      /\ after.metadata = None
                                      /\ after.error # None
                                      /\ after.error[1] \in lookupErrors(run.doiToLookup)
                                      /\ othersKept(run.jobId)]_vars

\* one job failed because its extraction threw, the other because its
\* lookup was answered 503, and no run is left
C22_Witness ==
    /\ Len(jobs) = 2
    /\ runs = {}
    /\ jobs[1].status = "failed" /\ jobs[1].error = Some("Error processing PDF")
    /\ jobs[2].status = "failed" /\ jobs[2].error = Some("Crossref request failed (503)")
    /\ jobs[2].metadata = None

----------------------------------------------------------------------------
(* findDois on its own: the page texts extractTextFromPdf hands to it       *)

\* bound: the number of pieces a page text is made of
MaxTokens == 3

\* pieces of page text: DOIs as they are printed, and words that are none
DoiTokens ==
    {"10.1000/A", "10.1000/a", "(10.1000/a).", "https://doi.org/10.1000/b;", "10.12/x", "see"}

RECURSIVE joinTokens(_)
joinTokens(tokens) ==
    IF tokens = <<>> THEN ""
    ELSE IF Len(tokens) = 1 THEN tokens[1]
    ELSE tokens[1] \o " " \o joinTokens(Tail(tokens))

\* chunks.join("\n") of extractTextFromPdf for one page of up to MaxTokens items
DoiTexts == {joinTokens(tokens) : tokens \in UNION {[1..n -> DoiTokens] : n \in 0..MaxTokens}}

\* a batch of one queued job whose file has one of the texts
DetectInit ==
    /\ \E text \in DoiTexts :
           jobs = updateJobs(<<newJob([name |-> "a.pdf", type |-> "application/pdf",
                                       text |-> text], 1)>>)
    /\ runs = {}
    /\ batches = {}
    /\ cur = Idle
    /\ nextJobId = 1
    /\ started = 0
    /\ edits = 0
    /\ downloads = {}
    /\ server = serverStart
    /\ single = singleStart

\* processJob on that job: findDois is applied by ExtractResolve
DetectNext ==
    \/ ClickProcess
    \/ ExtractResolve
    \/ ExtractReject
    \/ GuardStep
    \/ LookupResolve
    \/ LookupReject

DetectSpec == DetectInit /\ [][DetectNext]_vars

\* text.match(DOI_REGEX).map(cleanDoi): the normalized matches, in text order
cleanedMatches(text) ==
    LET matches == matchAll(text, 1)
    IN  [k \in 1..Len(matches) |-> cleanDoi(matches[k])]

\* the index of the first occurrence of value in list
firstIndex(list, value) == CHOOSE k \in 1..Len(list) :
    list[k] = value /\ \A i \in 1..(k - 1) : list[i] # value

\* two DOI strings are equal: their normalized forms match, letter case ignored
sameDoi(a, b) == toLowerCase(cleanDoi(a)) = toLowerCase(cleanDoi(b))

\* the jobs whose dois are the result of findDois on their file's text
detectedJobs == {k \in 1..Len(jobs) : jobs[k].status \in {"detecting", "fetching", "ready"}}

\* C23: for every text, findDois returns the normalized DOIs of the text in
\* order of first occurrence, no two of them equal as DOIs (normalized,
\* letter case ignored), and the empty list when nothing matches.
C23_FindDoisOrderedUnique ==
    \A k \in detectedJobs :
        LET dois == jobs[k].dois
            cleaned == cleanedMatches(jobs[k].file.text)
        IN  /\ dois = findDois(jobs[k].file.text)
            /\ {dois[i] : i \in 1..Len(dois)} = {cleaned[i] : i \in 1..Len(cleaned)} \ {""}
            /\ \A i, j \in 1..Len(dois) :
                   i < j => /\ firstIndex(cleaned, dois[i]) < firstIndex(cleaned, dois[j])
                            /\ ~sameDoi(dois[i], dois[j])
            /\ cleaned = <<>> => dois = <<>>

----------------------------------------------------------------------------
(* The server-mediated variant (src/src/App.tsx): one selected file that    *)
(* is posted to /api/rename.  `server` holds the useState values            *)
(* (selectedFile, status, toast), the number of pending toast timers, the   *)
(* renamePdf invocations in flight, and the name last saved.                *)

\* bounds: renamePdf invocations started, and toast timers pending
MaxRequests == 2

MaxTimers == 2

MAX_FILE_SIZE == 20 * 1024 * 1024

\* the files a pick or a drop delivers: name, MIME type and size in bytes
ServerFiles ==
    [name : {"p.pdf", "q.pdf"}, type : {"application/pdf", "text/plain"},
     size : {1, MAX_FILE_SIZE, MAX_FILE_SIZE + 1}]

\* validateFile with the test of the size left out
validationErrorTypeOnly(file) ==
    IF file.type # "application/pdf" THEN "Only PDF files are supported." ELSE ""

\* the message validateFile shows, "" when it returns true
validationError(file) ==
    IF file.type # "application/pdf" THEN "Only PDF files are supported."
    ELSE IF file.size > MAX_FILE_SIZE THEN "File exceeds 20MB limit."
    ELSE ""

validateFile(file) == validationError(file) = ""

\* showError: the timer it sets clears the toast 4000 ms later
showError(state, message) ==
    [state EXCEPT !.status = "error", !.toast = message, !.timers = @ + 1]

\* onInputChange and onDrop: onFilePicked(files[0]); neither is disabled
\* while a request is in flight
PickFile ==
    \E file \in ServerFiles :
        /\ IF validateFile(file)
           THEN server' = [server EXCEPT !.selectedFile = Some(file), !.status = "idle"]
           ELSE /\ server.timers < MaxTimers
                /\ server' = showError(server, validationError(file))
        /\ UNCHANGED <<batchVars, single>>

\* the Rename button (disabled without a selected file and while status is
\* uploading or renaming): renamePdf up to `await fetch(...)`
ClickRename ==
    /\ server.selectedFile # None
    /\ server.status \notin {"uploading", "renaming"}
    /\ server.sent < MaxRequests
    /\ server' = [server EXCEPT
                      !.status = "uploading",
                      !.sent = @ + 1,
                      !.requests = @ \cup {[id |-> server.sent + 1,
                                            file |-> server.selectedFile[1],
                                            pc |-> "fetch", header |-> None]}]
    /\ UNCHANGED <<batchVars, single>>

\* the Content-Disposition headers of a 200 answer, by what the two regular
\* expressions of extractFilename capture: filename*=UTF-8''... and filename=...
Dispositions ==
    { None,
      Some([utf8 |-> None, plain |-> None]),
      Some([utf8 |-> None, plain |-> Some("2021-smith.pdf")]),
      Some([utf8 |-> Some("2021-smith-t.pdf"), plain |-> Some("2021-smith.pdf")]) }

\* decodeURIComponent leaves the names of the model (no % escapes) unchanged
extractFilename(header) ==
    IF header = None THEN "renamed.pdf"
    ELSE IF header[1].utf8 # None THEN header[1].utf8[1]
    ELSE IF header[1].plain # None THEN header[1].plain[1]
    ELSE "renamed.pdf"

\* what the catch of renamePdf gets: the error field of a non-2xx answer, the
\* default when the body has none, or the message of a rejected fetch
RenameErrors == {"DOI not found", "Rename request failed.", "Failed to fetch"}

\* fetch resolves with response.ok: lines 82-83, up to `await response.blob()`
FetchOk ==
    \E request \in server.requests, header \in Dispositions :
        /\ request.pc = "fetch"
        /\ server' = [server EXCEPT
                          !.status = "renaming",
                          !.requests = (@ \ {request}) \cup
                              {[request EXCEPT !.pc = "blob", !.header = header]}]
        /\ UNCHANGED <<batchVars, single>>

\* fetch rejects, or resolves with !response.ok: lines 77-80 and the catch
FetchFails ==
    \E request \in server.requests, message \in RenameErrors :
        /\ request.pc = "fetch"
        /\ server.timers < MaxTimers
        /\ server' = [showError(server, message) EXCEPT !.requests = @ \ {request}]
        /\ UNCHANGED <<batchVars, single>>

\* response.blob() resolves: lines 84-93, the file is saved and status is done
BlobResolves ==
    \E request \in server.requests :
        /\ request.pc = "blob"
        /\ server' = [server EXCEPT
                          !.status = "done",
                          !.saved = Some(extractFilename(request.header)),
                          !.requests = @ \ {request}]
        /\ UNCHANGED <<batchVars, single>>

\* response.blob() rejects: the catch
BlobRejects ==
    \E request \in server.requests :
        /\ request.pc = "blob"
        /\ server.timers < MaxTimers
        /\ server' = [showError(server, "Failed to fetch") EXCEPT !.requests = @ \ {request}]
        /\ UNCHANGED <<batchVars, single>>

\* a timer of showError fires: setToast('')
ToastExpires ==
    /\ server.timers > 0
    /\ server' = [server EXCEPT !.toast = "", !.timers = @ - 1]
    /\ UNCHANGED <<batchVars, single>>

ServerNext ==
    \/ PickFile
    \/ ClickRename
    \/ FetchOk
    \/ FetchFails
    \/ BlobResolves
    \/ BlobRejects
    \/ ToastExpires

ServerSpec == Init /\ [][ServerNext]_vars

\* the constraints of the request: MIME type application/pdf, at most 20 MB
isValidated(file) == file.type = "application/pdf" /\ file.size <= 20971520

\* C24: in the server-mediated variant the selected file is always one that
\* passed validation (MIME type application/pdf, size at most 20 MB): a
\* rejected file never replaces the selection, and every rename request
\* carries a validated file.
C24_SelectedFileValidated ==
    /\ server.selectedFile # None => isValidated(server.selectedFile[1])
    /\ \A request \in server.requests : isValidated(request.file)

\* a file of exactly 20 MB is selected and being sent, and a later pick was
\* rejected for its size
C24_Witness ==
    /\ server.selectedFile # None
    /\ server.selectedFile[1].size = MAX_FILE_SIZE
    /\ server.status = "error"
    /\ server.toast = "File exceeds 20MB limit."
    /\ \E request \in server.requests : request.file = server.selectedFile[1]

----------------------------------------------------------------------------
(* computeCandidateName on its own: the works a lookup can answer with      *)

RECURSIVE repeat(_, _)
repeat(s, n) ==
    IF n = 0 THEN ""
    ELSE IF n = 1 THEN s
    ELSE repeat(s, n \div 2) \o repeat(s, n - n \div 2)

\* title?: string[]
SynthTitles ==
    {<<>>, <<"">>, <<"T?">>, <<" A  study: of/things ">>, <<repeat("x", 60)>>,
     <<repeat("x", 61)>>, <<repeat("ab ", 25)>>}

\* author?: CrossrefAuthor[]
SynthAuthors ==
    {<<>>,
     <<[family |-> Some("Smith"), name |-> Some("Org"), given |-> Some("J.")]>>,
     <<[family |-> None, name |-> Some("The Org"), given |-> Some("J.")]>>,
     <<[family |-> Some(""), name |-> Some("Org"), given |-> None]>>,
     <<[family |-> None, name |-> None, given |-> Some("J.")]>>,
     <<[family |-> None, name |-> None, given |-> None]>>,
     <<[family |-> None, name |-> Some(repeat("Consortium ", 12)), given |-> None]>>}

\* issued?.["date-parts"]
SynthDates == {<<>>, <<<<>>>>, <<<<2021, 5>>>>, <<<<0>>>>}

\* "container-title"?: string[]
SynthContainers ==
    {<<>>, <<"The of">>, <<"Journal of the Royal Society">>, <<"?">>, <<repeat("ab ", 45)>>}

SynthWorks ==
    [title : SynthTitles, author : SynthAuthors, dateParts : SynthDates,
     container : SynthContainers]

\* mutator(prev) of the ready update of processJob (lines 337-349) on a
\* batch of one job
SynthInit ==
    /\ \E work \in SynthWorks :
           jobs = <<readyJob(newJob([name |-> "a.pdf", type |-> "application/pdf",
                                     text |-> "10.1000/a"], 1), work, "10.1000/a")>>
    /\ runs = {}
    /\ batches = {}
    /\ cur = Idle
    /\ nextJobId = 1
    /\ started = 1
    /\ edits = 0
    /\ downloads = {}
    /\ server = serverStart
    /\ single = singleStart

SynthNext ==
    \/ ApplyResolve
    \/ RemoveJob

SynthSpec == SynthInit /\ [][SynthNext]_vars

\* an optional source value, sanitized, or the fallback token when it is
\* missing or sanitizes to the empty string
segmentOr(source, fallback) ==
    IF source = None \/ sanitizeFilename(source[1]) = "" THEN fallback
    ELSE sanitizeFilename(source[1])

yearSource(work) ==
    IF work.dateParts # <<>> /\ work.dateParts[1] # <<>> /\ work.dateParts[1][1] # 0
    THEN Some(String(work.dateParts[1][1])) ELSE None

\* the family name of the first author; the display name when the family
\* name is absent; the given name when both are
authorSource(work) ==
    IF work.author = <<>> THEN None
    ELSE IF work.author[1].family # None THEN work.author[1].family
    ELSE IF work.author[1].name # None THEN work.author[1].name
    ELSE work.author[1].given

titleSource(work) == IF work.title # <<>> THEN Some(work.title[1]) ELSE None

\* a title segment: at most 60 characters, or the first 60 and the indicator
shortened(title) == IF Len(title) > 60 THEN SubSeq(title, 1, 60) \o "-" ELSE title

\* the four segments, in the order of the name
segmentsOf(work) ==
    << segmentOr(yearSource(work), "UnknownYear"),
       segmentOr(authorSource(work), "UnknownAuthor"),
       shortened(segmentOr(titleSource(work), "Untitled")),
       segmentOr(Some(getJournalAbbr(work)), "UnknownJournal") >>

joined(segments) ==
    segments[1] \o " - " \o segments[2] \o " - " \o segments[3] \o " - " \o segments[4]

\* the first n characters of s
firstChars(s, n) == SubSeq(s, 1, IF Len(s) < n THEN Len(s) ELSE n)

\* the ready jobs that hold metadata and have been through resolveAllFilenames
namedReady ==
    {k \in 1..Len(jobs) :
         /\ jobs[k].status = "ready"
         /\ jobs[k].metadata # None
         /\ jobs[k].resolvedFilename # None}

\* the base name of a job alone in its batch is made of the four segments,
\* none of them empty; when cut, only the first 180 characters of it are kept
composedOfSegments(cut) ==
    \A k \in namedReady :
        LET name == jobs[k].resolvedFilename[1]
            base == SubSeq(name, 1, Len(name) - 4)
            segments == segmentsOf(jobs[k].metadata[1])
        IN  /\ \A i \in 1..4 : segments[i] # ""
            /\ Len(jobs) = 1
                   => base = (IF cut THEN firstChars(joined(segments), 180)
                              ELSE joined(segments))

baseOf(name) == SubSeq(name, 1, Len(name) - 4)

----------------------------------------------------------------------------
(* Metadata and the selected DOI                                           *)

\* C27: whenever a job is ready, its metadata is the record the registry
\* holds for the job's current selectedDoi: neither a DOI selection made
\* after the lookup nor the late completion of an older overlapping run
\* leaves a ready job with metadata fetched for another DOI.
C27_MetadataOfSelectedDoi ==
    \A k \in 1..Len(jobs) :
        jobs[k].status = "ready"
            => /\ jobs[k].selectedDoi # None
               /\ jobs[k].metadata = Some(WorkOf(jobs[k].selectedDoi[1]))

----------------------------------------------------------------------------
(* What a resolved filename depends on                                     *)

\* the first k jobs are the same jobs before and after the step, with the
\* status, metadata and file they had
prefixKept(k) ==
    /\ k <= Len(jobs')
    /\ \A i \in 1..k :
           /\ jobs'[i].id = jobs[i].id
           /\ jobs'[i].status = jobs[i].status
           /\ jobs'[i].metadata = jobs[i].metadata
           /\ jobs'[i].file = jobs[i].file

\* C28: the resolved filename of a job depends only on the jobs at or
\* before it in batch order: the names of the first k jobs are those the
\* first k jobs get as a batch of their own, and a step that appends files
\* or changes or removes later jobs leaves the names of the earlier jobs
\* as they are.
C28_NamesDependOnEarlierJobs ==
    [][\A k \in 1..Len(jobs) :
           /\ namesOf(resolveAllFilenames(SubSeq(jobs, 1, k))) = SubSeq(namesOf(jobs), 1, k)
           /\ prefixKept(k)
                  => \A i \in 1..k : jobs'[i].resolvedFilename = jobs[i].resolvedFilename]_vars

\* two jobs of files with the same name: the first has failed and has the
\* name of its file, the second has become ready and is named after its
\* metadata
C28_Witness ==
    /\ Len(jobs) = 2
    /\ jobs[1].file.name = jobs[2].file.name
    /\ jobs[1].status = "failed"
    /\ jobs[1].resolvedFilename = Some("a.pdf")
    /\ jobs[2].status = "ready"
    /\ jobs[2].resolvedFilename = Some("2021 - S - T - J.pdf")

----------------------------------------------------------------------------
(* Requests of the server-mediated variant                                 *)

\* the renamePdf invocations that start in this step
requestsStarting ==
    {request \in server'.requests : \A old \in server.requests : old.id # request.id}

\* C29: in the server-mediated variant at most one rename request is in
\* flight at any time: no request is started while status is uploading or
\* renaming nor while another request is in flight, whatever picks, drops
\* and validation errors happen in between; and status becomes done only
\* when the body of a successful response has arrived.
C29_OneRequestInFlight ==
    [][/\ Cardinality(server'.requests) <= 1
       /\ requestsStarting # {}
              => /\ server.status \notin {"uploading", "renaming"}
                 /\ server.requests = {}
       /\ (server'.status = "done" /\ server.status # "done")
              => \E request \in server.requests :
                     request.pc = "blob" /\ request \notin server'.requests]_vars

----------------------------------------------------------------------------
(* The single-file variant (src/unnamed/part_000): one PDF, its DOIs and    *)
(* the metadata of one of them.  `single` holds the useState values, the    *)
(* handleFile and lookupDoi invocations that have not returned (calls) and  *)
(* the number of invocations started (called).  The status texts are named  *)
(* by their keys in TEXT.                                                   *)
(* cleanDoi, findDois and fetchCrossref of this file are, line by line,     *)
(* those of src/app/page.tsx.                                              *)

\* bound: handleFile and lookupDoi invocations started
MaxCalls == 3

\* lookupDoi(doi) up to `await fetchCrossref(doi)`, as invocation id
startLookup(state, doi, id) ==
    [state EXCEPT !.selectedDoi = doi, !.metadata = None, !.loading = TRUE,
                  !.status = "statusFetching",
                  !.calls = @ \cup {[id |-> id, pc |-> "fetch", doi |-> doi]}]

\* handleFile(file) up to `await extractTextFromPdf(file)`
startHandleFile(state, file) ==
    [state EXCEPT !.pdfFile = Some(file), !.metadata = None, !.allDois = <<>>,
                  !.selectedDoi = "", !.manualDoi = "", !.loading = TRUE,
                  !.status = "statusParsing", !.called = @ + 1,
                  !.calls = @ \cup {[id |-> state.called + 1, pc |-> "extract",
                                     file |-> file]}]

\* onUpload: the <input type="file"> (disabled while loading)
SingleUpload ==
    \E file \in Files :
        /\ ~single.loading
        /\ single.called < MaxCalls
        /\ single' = startHandleFile(single, file)
        /\ UNCHANGED <<batchVars, server>>

\* onDrop: the drop zone (never disabled)
SingleDrop ==
    \E file \in Files :
        /\ IF isPdf(file)
           THEN /\ single.called < MaxCalls
                /\ single' = startHandleFile(single, file)
           ELSE single' = [single EXCEPT !.status = "statusErrorPdf"]
        /\ UNCHANGED <<batchVars, server>>

\* extractTextFromPdf resolves: lines 237-246, into lookupDoi(dois[0])
SingleExtractResolve ==
    \E call \in single.calls :
        LET dois == findDois(call.file.text)
            rest == [single EXCEPT !.allDois = dois, !.calls = @ \ {call}]
        IN  /\ call.pc = "extract"
            /\ single' = IF Len(dois) = 0
                         THEN [rest EXCEPT !.status = "statusNoDoi", !.loading = FALSE]
                         ELSE startLookup(rest, dois[1], call.id)
            /\ UNCHANGED <<batchVars, server>>

\* extractTextFromPdf throws: the catch of handleFile
SingleExtractReject ==
    \E call \in single.calls :
        /\ call.pc = "extract"
        /\ single' = [single EXCEPT !.status = "statusErrorPdf", !.loading = FALSE,
                                    !.calls = @ \ {call}]
        /\ UNCHANGED <<batchVars, server>>

\* the option the <select value={selectedDoi}> shows
shownOption(state) ==
    IF \E k \in 1..Len(state.allDois) : state.allDois[k] = state.selectedDoi
    THEN state.selectedDoi ELSE state.allDois[1]

\* onChange of the DOI <select> (rendered when allDois.length > 1, never disabled)
SingleSelectDoi ==
    \E k \in 1..Len(single.allDois) :
        /\ Len(single.allDois) > 1
        /\ single.allDois[k] # shownOption(single)
        /\ single.called < MaxCalls
        /\ single' = [startLookup(single, single.allDois[k], single.called + 1)
                          EXCEPT !.called = @ + 1]
        /\ UNCHANGED <<batchVars, server>>

\* onChange of the manual DOI <input> (disabled while loading)
SingleEditManual ==
    \E value \in ManualInputs :
        /\ ~single.loading
        /\ value # single.manualDoi
        /\ single' = [single EXCEPT !.manualDoi = value]
        /\ UNCHANGED <<batchVars, server>>

\* onManualLookup: the Lookup DOI button (disabled while loading)
SingleManualLookup ==
    LET doi == cleanDoi(single.manualDoi)
    IN  /\ ~single.loading
        /\ IF doi = ""
           THEN single' = [single EXCEPT !.status = "statusInvalidDoi"]
           ELSE /\ single.called < MaxCalls
                /\ single' = [startLookup(single, doi, single.called + 1)
                                  EXCEPT !.called = @ + 1]
        /\ UNCHANGED <<batchVars, server>>

\* fetchCrossref resolves: lines 217-218 and the finally
SingleLookupResolve ==
    \E call \in single.calls :
        /\ call.pc = "fetch"
        /\ \E response \in Responses(call.doi) :
               LET result == fetchCrossref(response)
               IN  /\ result.ok
                   /\ single' = [single EXCEPT !.metadata = Some(result.work),
                                               !.status = "statusSuccess",
                                               !.loading = FALSE,
                                               !.calls = @ \ {call}]
        /\ UNCHANGED <<batchVars, server>>

\* fetchCrossref throws: the catch of lookupDoi and the finally
SingleLookupReject ==
    \E call \in single.calls :
        /\ call.pc = "fetch"
        /\ \E response \in Responses(call.doi) : ~fetchCrossref(response).ok
        /\ single' = [single EXCEPT !.status = "statusErrorLookup", !.loading = FALSE,
                                    !.calls = @ \ {call}]
        /\ UNCHANGED <<batchVars, server>>

SingleNext ==
    \/ SingleUpload
    \/ SingleDrop
    \/ SingleExtractResolve
    \/ SingleExtractReject
    \/ SingleSelectDoi
    \/ SingleEditManual
    \/ SingleManualLookup
    \/ SingleLookupResolve
    \/ SingleLookupReject

SingleSpec == Init /\ [][SingleNext]_vars

\* C30: in the single-file variant, whenever metadata is shown and no
\* lookup is in flight, the metadata is the registry's record for the
\* current selectedDoi; and loading is true exactly while an extraction or
\* a lookup is in flight, also when another DOI is picked or another file
\* is dropped before an earlier lookup has answered.
C30_MetadataOfSelectedDoiAndLoading ==
    /\ (single.metadata # None /\ \A call \in single.calls : call.pc # "fetch")
           => single.metadata = Some(WorkOf(single.selectedDoi))
    /\ single.loading <=> single.calls # {}

====
